---- MODULE Spec2Model ----
(***************************************************************************)
(* The AHP pairwise-comparison page of steam-game-decision-support:        *)
(* the criteria list, the generated radio groups, the pairwise matrix read *)
(* from them, the request to /calculate_ahp and the handling of its        *)
(* response.  Numbers are IEEE-754 doubles computed bit by bit, strings    *)
(* are sequences of characters.                                            *)
(***************************************************************************)
EXTENDS Integers, Sequences, FiniteSets, TLC

\* TLC may evaluate a LET definition or an operator argument again at each use; a
\* value bound by a set constructor or passed to a function is evaluated once.
\* The({e : x \in {d}}) is e with x bound to the value of d.
The(S) == CHOOSE x \in S : TRUE

\* ---- natural numbers of any size: bit sequences, most significant bit first, no
\* leading zero (zero is the empty sequence)
Bits == Seq({0, 1})

BNorm[a \in Bits] ==
    IF \A i \in 1..Len(a) : a[i] = 0 THEN <<>>
    ELSE SubSeq(a, CHOOSE i \in 1..Len(a) : a[i] = 1 /\ \A k \in 1..(i - 1) : a[k] = 0, Len(a))

BZeros[n \in Int] == [i \in 1..n |-> 0] \o <<>>

BPad[a \in Bits, w \in Nat] == BZeros[w - Len(a)] \o a

BCmp[a \in Bits, b \in Bits] ==
    IF Len(a) # Len(b) THEN (IF Len(a) < Len(b) THEN -1 ELSE 1)
    ELSE IF a = b THEN 0
    ELSE The({IF a[d] < b[d] THEN -1 ELSE 1 :
              d \in {CHOOSE i \in 1..Len(a) : a[i] # b[i] /\ \A k \in 1..(i - 1) : a[k] = b[k]}})

\* a + b + c at equal widths: rec[lo, hi, c] is <<bits lo..hi of the sum, the carry
\* out of bit lo>> given the carry c into bit hi
BAddBits[a \in Bits, b \in Bits] ==
    LET rec[lo \in Nat, hi \in Nat, c \in {0, 1}] ==
            IF lo = hi
            THEN << <<(a[lo] + b[lo] + c) % 2>>, (a[lo] + b[lo] + c) \div 2 >>
            ELSE The({ The({ <<L[1] \o R[1], L[2]>> : L \in {rec[lo, (lo + hi) \div 2, R[2]]} }) :
                       R \in {rec[(lo + hi) \div 2 + 1, hi, c]} })
    IN  rec[1, Len(a), 0]

BAdd[a \in Bits, b \in Bits] ==
    The({ BNorm[BAddBits[BPad[a, w], BPad[b, w]][1]] :
          w \in {1 + (IF Len(a) > Len(b) THEN Len(a) ELSE Len(b))} })

BSubBits[a \in Bits, b \in Bits] ==
    LET rec[lo \in Nat, hi \in Nat, c \in {0, 1}] ==
            IF lo = hi
            THEN << <<(a[lo] - b[lo] - c + 2) % 2>>, IF a[lo] - b[lo] - c < 0 THEN 1 ELSE 0 >>
            ELSE The({ The({ <<L[1] \o R[1], L[2]>> : L \in {rec[lo, (lo + hi) \div 2, R[2]]} }) :
                       R \in {rec[(lo + hi) \div 2 + 1, hi, c]} })
    IN  rec[1, Len(a), 0]

\* a - b, for a >= b
BSub[a \in Bits, b \in Bits] ==
    IF a = <<>> THEN <<>> ELSE BNorm[BSubBits[a, BPad[b, Len(a)]][1]]

BShl[a \in Bits, n \in Nat] == IF a = <<>> THEN <<>> ELSE a \o BZeros[n]

BFromInt[k \in Nat] == IF k = 0 THEN <<>> ELSE Append(BFromInt[k \div 2], k % 2)

BMul10[a \in Bits] == BAdd[BShl[a, 3], BShl[a, 1]]

BMulPow10[a \in Bits, k \in Nat] == IF k = 0 THEN a ELSE BMul10[BMulPow10[a, k - 1]]

BPow10[k \in Nat] == BMulPow10[<<1>>, k]

\* the number written with the decimal digits ds
BFromDigits[ds \in Seq(0..9)] ==
    IF ds = <<>> THEN <<>>
    ELSE BAdd[BMul10[BFromDigits[SubSeq(ds, 1, Len(ds) - 1)]], BFromInt[ds[Len(ds)]]]

\* <<quotient, remainder>> of a by b, b # 0, by long division: rec[lo, hi, r] is
\* <<the quotient bits for bits lo..hi of a, the remainder>> given the remainder r
\* left by the bits before lo
BDivMod[a \in Bits, b \in Bits] ==
    LET step[r2 \in Bits] ==
            IF BCmp[r2, b] >= 0 THEN << <<1>>, BSub[r2, b] >> ELSE << <<0>>, r2 >>
        rec[lo \in Nat, hi \in Nat, r \in Bits] ==
            IF lo = hi
            THEN step[BNorm[Append(r, a[lo])]]
            ELSE The({ The({ <<L[1] \o R[1], R[2]>> : R \in {rec[(lo + hi) \div 2 + 1, hi, L[2]]} }) :
                       L \in {rec[lo, (lo + hi) \div 2, r]} })
    IN  IF a = <<>> THEN << <<>>, <<>> >>
        ELSE The({ <<BNorm[qr[1]], qr[2]>> : qr \in {rec[1, Len(a), <<>>]} })

Inc[a \in Bits] == BAdd[a, <<1>>]

\* ---- IEEE-754 binary64, positive finite numbers: value = m * 2^e, m of Precision bits
Precision == 53

Zero == [m |-> <<>>, e |-> 0]

\* the double nearest to (q + f) * 2^e, ties to even, for a fraction 0 <= f < 1 that
\* is not 0 exactly when sticky
RoundToDouble[q \in Bits, e \in Int, sticky \in BOOLEAN] ==
    IF q = <<>> THEN Zero
    ELSE IF Len(q) <= Precision
    THEN [m |-> BShl[q, Precision - Len(q)], e |-> e - (Precision - Len(q))]
    ELSE The({ IF Len(m2) > Precision
               THEN [m |-> SubSeq(m2, 1, Precision), e |-> e + (Len(q) - Precision) + 1]
               ELSE [m |-> m2, e |-> e + (Len(q) - Precision)] :
               m2 \in { IF /\ q[Precision + 1] = 1
                           /\ \/ sticky
                              \/ \E i \in (Precision + 2)..Len(q) : q[i] = 1
                              \/ q[Precision] = 1
                        THEN Inc[SubSeq(q, 1, Precision)]
                        ELSE SubSeq(q, 1, Precision) } })

\* the double nearest to a / b * 2^e, b # 0
RatToDouble[a \in Bits, b \in Bits, e \in Int] ==
    IF a = <<>> THEN Zero
    ELSE The({ RoundToDouble[qr[1], e - (Len(b) + Precision + 1), qr[2] # <<>>] :
               qr \in {BDivMod[BShl[a, Len(b) + Precision + 1], b]} })

FromInt[k \in Nat] == RatToDouble[BFromInt[k], <<1>>, 0]

\* x / y
Divide(x, y) == The({ RatToDouble[p[1].m, p[2].m, p[1].e - p[2].e] : p \in {<<x, y>>} })

One == FromInt[1]


\* ---- strings: sequences of one-character strings
DigitChars == <<"0", "1", "2", "3", "4", "5", "6", "7", "8", "9">>

IsDigit(c) == \E d \in 1..Len(DigitChars) : DigitChars[d] = c

DigitVal(c) == (CHOOSE d \in 1..Len(DigitChars) : DigitChars[d] = c) - 1

IsSpace(c) == c = " "

Range(s) == {s[i] : i \in 1..Len(s)}

SetMin(S) == CHOOSE x \in S : \A z \in S : x <= z

SetMax(S) == CHOOSE x \in S : \A z \in S : x >= z

\* String.prototype.trim
Trim(s) ==
    The({ IF keep = {} THEN <<>> ELSE SubSeq(s, SetMin(keep), SetMax(keep)) :
          keep \in {{i \in 1..Len(s) : ~IsSpace(s[i])}} })

\* the text content of the text s parsed as HTML: a character reference &amp; (its
\* semicolon optional) is the character &.  The strings of this model hold no "<"
\* and no other reference.
TextContent(s) ==
    LET from[i \in Nat] ==
            IF i > Len(s) THEN <<>>
            ELSE IF i + 3 <= Len(s) /\ SubSeq(s, i, i + 3) = <<"&", "a", "m", "p">>
            THEN <<"&">> \o from[IF i + 4 <= Len(s) /\ s[i + 4] = ";" THEN i + 5 ELSE i + 4]
            ELSE <<s[i]>> \o from[i + 1]
    IN  from[1]

\* ---- Number::toString and parseFloat
\* the decimal digit characters of the natural number a, none for zero
BToDigits[a \in Bits] ==
    IF a = <<>> THEN <<>>
    ELSE The({ Append(BToDigits[qr[1]],
                      DigitChars[1 + (IF qr[2] = <<>> THEN 0
                                      ELSE CHOOSE v \in 1..9 : BFromInt[v] = qr[2])]) :
               qr \in {BDivMod[a, BFromInt[10]]} })

\* a double as the fraction <<numerator, denominator>>
Fraction(v) ==
    << BShl[v.m, IF v.e > 0 THEN v.e ELSE 0], BShl[<<1>>, IF v.e < 0 THEN 0 - v.e ELSE 0] >>

\* <<numerator, denominator>> of v * 10^k, k of either sign
Scaled(v, k) ==
    IF k >= 0 THEN << BMulPow10[Fraction(v)[1], k], Fraction(v)[2] >>
    ELSE << Fraction(v)[1], BMulPow10[Fraction(v)[2], 0 - k] >>

\* the Number value for s * 10^k: the double nearest to it
NumberValue(s, k) ==
    IF k >= 0 THEN RatToDouble[BMulPow10[s, k], <<1>>, 0]
    ELSE RatToDouble[s, BPow10[0 - k], 0]

\* n with 10^(n-1) <= v < 10^n, in the range that Number::toString writes without an
\* exponent
DecimalExponent(v) ==
    CHOOSE n \in -5..21 :
        /\ The({ BCmp[sc[1], sc[2]] >= 0 : sc \in {Scaled(v, 1 - n)} })
        /\ The({ BCmp[sc[1], sc[2]] < 0 : sc \in {Scaled(v, 0 - n)} })

\* with k digits: the digits s for which s * 10^(n-k) reads back as v, the empty
\* sequence when there are none; of two such s the one closer to v, the even one
\* when they are equally close
DigitsOfLength(v, n, k) ==
    The({ The({ The({ IF ok[1] /\ ok[2]
                      THEN (IF near < 0 \/ (near = 0 /\ qr[1][Len(qr[1])] = 0) THEN qr[1] ELSE Inc[qr[1]])
                      ELSE IF ok[1] THEN qr[1]
                      ELSE IF ok[2] THEN Inc[qr[1]]
                      ELSE <<>> :
                      ok \in {<< NumberValue(qr[1], n - k) = v,
                                 /\ qr[2] # <<>>
                                 /\ Len(BToDigits[Inc[qr[1]]]) = k
                                 /\ NumberValue(Inc[qr[1]], n - k) = v >>},
                      near \in {BCmp[BShl[qr[2], 1], sc[2]]} }) :
                qr \in {BDivMod[sc[1], sc[2]]} }) :
          sc \in {Scaled(v, k - n)} })

\* the digits of Number::toString: as few as possible
ShortestDigits(v, n) ==
    LET try[k \in Nat] ==
            The({ IF d # <<>> THEN d ELSE try[k + 1] : d \in {DigitsOfLength(v, n, k)} })
    IN  try[1]

\* Number::toString(v), radix 10, for a positive finite v written without an exponent
NumberToString(v) ==
    The({ The({ The({ IF Len(digits) <= n THEN digits \o [i \in 1..(n - Len(digits)) |-> "0"]
                      ELSE IF 0 < n
                      THEN SubSeq(digits, 1, n) \o <<".">> \o SubSeq(digits, n + 1, Len(digits))
                      ELSE <<"0", ".">> \o [i \in 1..(0 - n) |-> "0"] \o digits :
                      digits \in {BToDigits[ShortestDigits(w, n)]} }) :
                n \in {DecimalExponent(w)} }) :
          w \in {v} })

\* the result of parseFloat on a string that starts with no numeric literal
NaN == [m |-> <<>>, e |-> 1]

\* how many digit characters s holds from position i on, before the first other one
DigitRun(s, i) ==
    The({ (IF stops = {} THEN Len(s) + 1 ELSE SetMin(stops)) - i :
          stops \in {{j \in i..Len(s) : ~IsDigit(s[j])}} })

\* parseFloat: leading white space skipped, then the longest prefix digits [. digits]
\* (the strings of this model hold no sign and no exponent part)
ParseFloat(str) ==
    The({ The({ The({ IF ni + nf = 0 THEN NaN
                      ELSE RatToDouble[
                               BFromDigits[[i \in 1..(ni + nf) |->
                                   DigitVal(IF i <= ni THEN s[i] ELSE s[i + 1])] \o <<>>],
                               BPow10[nf], 0] :
                      nf \in {IF ni + 1 <= Len(s) /\ s[ni + 1] = "." THEN DigitRun(s, ni + 2) ELSE 0} }) :
                ni \in {DigitRun(s, 1)} }) :
          s \in { The({ IF Trim(w) = <<>> THEN <<>>
                        ELSE SubSeq(w, SetMin({i \in 1..Len(w) : ~IsSpace(w[i])}), Len(w)) :
                        w \in {str} }) } })

\* ---- the page
\* criteria, as the script defines it
InitialCriteria ==
    << <<"P", "r", "i", "c", "e">>,
       <<"R", "e", "c", "o", "m", "m", "e", "n", "d", "a", "t", "i", "o", "n", "s", " ", "T", "o", "t", "a", "l">>,
       <<"R", "e", "l", "e", "a", "s", "e", " ", "Y", "e", "a", "r">>,
       <<"M", "i", "n", " ", "R", "A", "M">>,
       <<"C", "P", "U", " ", "M", "i", "n">>,
       <<"G", "P", "U", " ", "M", "i", "n">>,
       <<"S", "t", "e", "a", "m", " ", "R", "a", "t", "i", "n", "g", " ", "L", "a", "b", "e", "l">>,
       <<"S", "t", "e", "a", "m", " ", "C", "h", "a", "r", "t", " ", "P", "l", "a", "y", "e", "r", " ", "3", "0", "d", " ", "A", "v", "g">>,
       <<"S", "t", "e", "a", "m", " ", "C", "h", "a", "r", "t", " ", "C", "u", "r", "r", "e", "n", "t", " ", "P", "l", "a", "y", "e", "r">> >>

\* ---- bounds of the model
\* the model starts with the first InitLen initial criteria: the page after the
\* user has removed the others with removeCriteria
InitLen == 2

\* addCriteria is tried only while the list is shorter than MaxLen
MaxLen == 3

\* the user picks inputs at most MaxPick places from the middle of a scale
MaxPick == 1

\* at most MaxChanged groups hold a selection other than the generated one
MaxChanged == 1

\* calculateWeights is called at most MaxRequests times
MaxRequests == 2

\* what the user types into the newCriteria box
Typed ==
    { <<>>,
      <<" ">>,
      <<" ", "P", "r", "i", "c", "e", " ">>,
      <<"&", "a", "m", "p", ";">> }

\* ---- createRadio and the scale of generatePairwiseComparisons
\* the input element createRadio writes
createRadio(name, value, text, isChecked) ==
    [name |-> name, value |-> NumberToString(value), text |-> text, checked |-> isChecked]

\* the arguments value, text and isChecked of the seventeen createRadio calls of one
\* comparison row, in order; the value 1/k as <<1, k>>, the value k as <<k, 1>>
ScaleArguments ==
    << <<9, 1, "9", FALSE>>, <<8, 1, "8", FALSE>>, <<7, 1, "7", FALSE>>,
       <<6, 1, "6", FALSE>>, <<5, 1, "5", FALSE>>, <<4, 1, "4", FALSE>>,
       <<3, 1, "3", FALSE>>, <<2, 1, "2", FALSE>>, <<1, 1, "1", TRUE>>,
       <<1, 2, "2", FALSE>>, <<1, 3, "3", FALSE>>, <<1, 4, "4", FALSE>>,
       <<1, 5, "5", FALSE>>, <<1, 6, "6", FALSE>>, <<1, 7, "7", FALSE>>,
       <<1, 8, "8", FALSE>>, <<1, 9, "9", FALSE>> >>

\* the inputs these calls write
RadioScale(name) ==
    [k \in 1..Len(ScaleArguments) |->
        The({ createRadio(name,
                          IF a[2] = 1 THEN FromInt[a[1]] ELSE Divide(FromInt[a[1]], FromInt[a[2]]),
                          a[3], a[4]) :
              a \in {ScaleArguments[k]} })] \o <<>>

\* the inputs of one row; they differ between rows in their name only
ScaleGroup == RadioScale(<<0, 1>>)

\* the value attributes of the inputs of a row
RadioValues == The({ [k \in 1..Len(g) |-> g[k].value] \o <<>> : g \in {ScaleGroup} })

\* the input of a row that carries the checked attribute
GeneratedChecked == The({ CHOOSE k \in 1..Len(g) : g[k].checked : g \in {ScaleGroup} })

\* ---- the state of the page
VARIABLES
    criteria,         \* the global criteria: a sequence of names
    criteriaList,     \* #criteriaList: the text of the span of each criteria tag
    container,        \* #pairwiseComparisonsContainer: the comparison rows
    pairwiseSection,  \* #pairwiseSection: whether it is displayed
    weights,          \* the global weights
    results,          \* #results: its content and whether it is displayed
    localStorage,     \* localStorage, by key
    promises,         \* the promise of each calculateWeights call, by call
    sent,             \* the body of the latest request to /calculate_ahp
    received,         \* the response each settled call got
    alerted           \* the alert shown by the latest handler, NoAlert when none

vars == <<criteria, criteriaList, container, pairwiseSection, weights, results,
          localStorage, promises, sent, received, alerted>>

NoAlert == "no alert"

\* ---- the values of JavaScript the model tells apart, each [type, of]: of is the
\* call a weights or criteria array answers, 1 or 0 for true or false
Undefined == [type |-> "undefined", of |-> 0]

True == [type |-> "boolean", of |-> 1]

False == [type |-> "boolean", of |-> 0]

EmptyArray == [type |-> "array", of |-> 0]

SomeNumber == [type |-> "number", of |-> 0]

SomeString == [type |-> "string", of |-> 0]

\* the weights and the criteria that answer call id
Weights(id) == [type |-> "weights", of |-> id]

Criteria(id) == [type |-> "criteria", of |-> id]

\* if (x)
Truthy(x) == x.type # "undefined" /\ x # False

\* JSON.stringify(x), and what localStorage holds under a key never set
JSONStringify(x) == [json |-> x.type, of |-> x.of]

NoItem == [json |-> "no item", of |-> 0]

\* #results before displayResults has run
NoHtml == [criteria |-> Undefined, weights |-> Undefined, consistency |-> "", next |-> FALSE]

\* the request body before any request
NoRequest == [criteria |-> <<>>, pairwise_matrix |-> <<>>]

\* ---- updateCriteriaList
\* the spans of #criteriaList after innerHTML is set from the list c
updateCriteriaList(c) == [t \in 1..Len(c) |-> TextContent(c[t])]

\* ---- addCriteria and removeCriteria
\* criteria.filter(c => c !== criterion)
RECURSIVE Filter(_, _)
Filter(c, criterion) ==
    IF c = <<>> THEN <<>>
    ELSE IF c[1] # criterion THEN <<c[1]>> \o Filter(Tail(c), criterion)
    ELSE Filter(Tail(c), criterion)

\* addCriteria with `typed` in the newCriteria box.  The box itself is not kept: a
\* call reads what the user typed for it.
addCriteria(typed) ==
    LET criterion == Trim(typed)
    IN  /\ Len(criteria) < MaxLen
        /\ IF criterion # <<>> /\ criterion \notin Range(criteria)
           THEN /\ criteria' = Append(criteria, criterion)
                /\ criteriaList' = updateCriteriaList(criteria')
           ELSE UNCHANGED <<criteria, criteriaList>>
        /\ alerted' = NoAlert
        /\ UNCHANGED <<container, pairwiseSection, weights, results, localStorage,
                       promises, sent, received>>

\* removeCriteria(button), button the Remove button of tag t of #criteriaList
removeCriteria(t) ==
    LET criterion == Trim(criteriaList[t])
    IN  /\ criteria' = Filter(criteria, criterion)
        /\ criteriaList' = updateCriteriaList(criteria')
        /\ alerted' = NoAlert
        /\ UNCHANGED <<container, pairwiseSection, weights, results, localStorage,
                       promises, sent, received>>

\* ---- generatePairwiseComparisons
\* the pairs of the two loops, in the order the loops visit them
PairSeq(n) ==
    LET pairs == {<<i, j>> \in (0..(n - 1)) \X (0..(n - 1)) : i < j}
        before(p, q) == p[1] < q[1] \/ (p[1] = q[1] /\ p[2] < q[2])
    IN  [r \in 1..Cardinality(pairs) |->
            CHOOSE p \in pairs : Cardinality({q \in pairs : before(q, p)}) = r - 1]

\* a row whose createRadio calls all leave isChecked at its default
ComparisonRowUnchecked(c, i, j) ==
    [left |-> TextContent(c[i + 1]), right |-> TextContent(c[j + 1]),
     name |-> <<i, j>>, checked |-> 0]

\* one comparison row: its two labels, the name of its radio group (compare_i_j as
\* <<i, j>>) and which of the inputs of RadioScale is checked
ComparisonRow(c, i, j) ==
    [left |-> TextContent(c[i + 1]), right |-> TextContent(c[j + 1]),
     name |-> <<i, j>>, checked |-> GeneratedChecked]

generatePairwiseComparisons ==
    IF Len(criteria) < 2
    THEN /\ alerted' = "Please add at least 2 criteria"
         /\ UNCHANGED <<criteria, criteriaList, container, pairwiseSection, weights,
                        results, localStorage, promises, sent, received>>
    ELSE /\ container' = [r \in 1..Len(PairSeq(Len(criteria))) |->
                             ComparisonRow(criteria, PairSeq(Len(criteria))[r][1],
                                           PairSeq(Len(criteria))[r][2])]
         /\ pairwiseSection' = "block"
         /\ alerted' = NoAlert
         /\ UNCHANGED <<criteria, criteriaList, weights, results, localStorage,
                        promises, sent, received>>

\* the user clicks input k of row r: the browser checks it and unchecks the others
\* of its group
Changed(rows) == {r \in 1..Len(rows) : rows[r].checked # GeneratedChecked}

selectRadio(r, k) ==
    /\ container[r].checked # k
    /\ container' = [container EXCEPT ![r].checked = k]
    /\ Cardinality(Changed(container')) <= MaxChanged
    /\ alerted' = NoAlert
    /\ UNCHANGED <<criteria, criteriaList, pairwiseSection, weights, results,
                   localStorage, promises, sent, received>>

\* ---- getPairwiseMatrix
\* what lines 107 to 109 compute from each input of a row: value and 1 / value
ParsedValues == The({ [k \in 1..Len(rv) |-> ParseFloat(rv[k])] \o <<>> : rv \in {RadioValues} })

Reciprocals == The({ [k \in 1..Len(pv) |-> Divide(One, pv[k])] \o <<>> : pv \in {ParsedValues} })

\* the selector without :checked: the first input of that name in the page
checkedRadioFirstInput(rows, i, j) ==
    IF \E r \in 1..Len(rows) : rows[r].name = <<i, j>> THEN 1 ELSE 0

\* document.querySelector(`input[name="compare_i_j"]:checked`): the first checked
\* input of that name in the page, 0 when there is none
checkedRadio(rows, i, j) ==
    LET hits == {r \in 1..Len(rows) : rows[r].name = <<i, j>> /\ rows[r].checked # 0}
    IN  IF hits = {} THEN 0 ELSE rows[SetMin(hits)].checked

\* getPairwiseMatrix without line 109: the entry below the diagonal keeps its 1
getPairwiseMatrixUpperOnly(c, rows) ==
    [i \in 0..(Len(c) - 1) |-> [j \in 0..(Len(c) - 1) |->
        IF i < j /\ checkedRadio(rows, i, j) # 0 THEN ParsedValues[checkedRadio(rows, i, j)]
        ELSE One]]

\* the matrix, rows and columns numbered from 0
getPairwiseMatrix(c, rows) ==
    LET n == Len(c)
    IN  [i \in 0..(n - 1) |-> [j \in 0..(n - 1) |->
            IF i < j /\ checkedRadio(rows, i, j) # 0 THEN ParsedValues[checkedRadio(rows, i, j)]
            ELSE IF j < i /\ checkedRadio(rows, j, i) # 0 THEN Reciprocals[checkedRadio(rows, j, i)]
            ELSE One]]

\* ---- calculateWeights, up to the fetch
Calls == 0..(MaxRequests - 1)

Pending == {id \in DOMAIN promises : promises[id] = "pending"}

calculateWeights ==
    /\ Cardinality(DOMAIN promises) < MaxRequests
    /\ LET id     == Cardinality(DOMAIN promises)
           matrix == getPairwiseMatrix(criteria, container)
       IN  /\ sent' = [criteria |-> criteria, pairwise_matrix |-> matrix]
           /\ promises' = [c \in DOMAIN promises \cup {id} |->
                              IF c = id THEN "pending" ELSE promises[c]]
    /\ alerted' = NoAlert
    /\ UNCHANGED <<criteria, criteriaList, container, pairwiseSection, weights, results,
                   localStorage, received>>

\* ---- the responses of /calculate_ahp
\* what the fetch of call id may come back with: a failure of fetch or of
\* response.json() ("rejected"), the body null, or an object, of which a field may be
\* missing.  criteria, when present, is not empty.
Response(kind, success, c, w, cr, ic, error) ==
    [kind |-> kind, success |-> success, criteria |-> c, weights |-> w,
     consistency_ratio |-> cr, is_consistent |-> ic, error |-> error]

Rejected == Response("rejected", Undefined, Undefined, Undefined, Undefined, Undefined, Undefined)

NullBody == Response("null", Undefined, Undefined, Undefined, Undefined, Undefined, Undefined)

Bodies(id) ==
    { Response("object", True, c, w, cr, ic, Undefined) :
        c \in {Criteria(id), Undefined}, w \in {Weights(id), Undefined},
        cr \in {SomeNumber, Undefined}, ic \in {True, False, Undefined} }
    \cup { Response("object", False, Undefined, Undefined, Undefined, Undefined, SomeString),
           Response("object", Undefined, Undefined, Undefined, Undefined, Undefined, Undefined) }

Responses(id) == {Rejected, NullBody} \cup Bodies(id)

\* ---- displayResults
\* displayResults with the two setItem calls outside if (data.is_consistent)
displayResultsAlwaysStores(data) ==
    IF \/ data.criteria = Undefined
       \/ data.weights = Undefined
       \/ data.consistency_ratio = Undefined
    THEN [threw |-> TRUE, results |-> results, localStorage |-> localStorage]
    ELSE [threw |-> FALSE,
          results |->
              [html |-> [criteria |-> data.criteria, weights |-> data.weights,
                         consistency |-> IF Truthy(data.is_consistent) THEN "good" ELSE "bad",
                         next |-> Truthy(data.is_consistent)],
               display |-> "block"],
          localStorage |->
              [ahp_weights |-> JSONStringify(data.weights),
               ahp_criteria |-> JSONStringify(data.criteria)]]

\* displayResults(data): whether it throws, and #results and localStorage after it
displayResults(data) ==
    IF \/ data.criteria = Undefined          \* data.criteria.forEach
       \/ data.weights = Undefined           \* data.weights[index]
       \/ data.consistency_ratio = Undefined \* data.consistency_ratio.toFixed
    THEN [threw |-> TRUE, results |-> results, localStorage |-> localStorage]
    ELSE [threw |-> FALSE,
          results |->
              [html |-> [criteria |-> data.criteria, weights |-> data.weights,
                         consistency |-> IF Truthy(data.is_consistent) THEN "good" ELSE "bad",
                         next |-> Truthy(data.is_consistent)],
               display |-> "block"],
          localStorage |->
              IF Truthy(data.is_consistent)
              THEN [ahp_weights |-> JSONStringify(data.weights),
                    ahp_criteria |-> JSONStringify(data.criteria)]
              ELSE localStorage]

\* ---- calculateWeights, from the response on
\* the try block with if (data.success) ... else alert('Error: ' + data.error)
tryBlockTruthy(data) ==
    IF data.kind = "rejected" \/ data.kind = "null"
    THEN [threw |-> TRUE, alert |-> NoAlert, weights |-> weights,
          results |-> results, localStorage |-> localStorage]
    ELSE IF Truthy(data.success)
    THEN [threw |-> displayResults(data).threw, alert |-> NoAlert, weights |-> data.weights,
          results |-> displayResults(data).results,
          localStorage |-> displayResults(data).localStorage]
    ELSE [threw |-> FALSE, alert |-> "Error: " \o "message", weights |-> weights,
          results |-> results, localStorage |-> localStorage]

\* the try block on the data of the response: whether it threw, the alert it showed,
\* and weights, #results and localStorage after it
tryBlock(data) ==
    IF data.kind = "rejected" \/ data.kind = "null"
    THEN [threw |-> TRUE, alert |-> NoAlert, weights |-> weights,
          results |-> results, localStorage |-> localStorage]
    ELSE IF data.success = True
    THEN [threw |-> displayResults(data).threw, alert |-> NoAlert, weights |-> data.weights,
          results |-> displayResults(data).results,
          localStorage |-> displayResults(data).localStorage]
    ELSE IF data.success = False
    THEN [threw |-> FALSE, alert |-> "Error: " \o "message", weights |-> weights,
          results |-> results, localStorage |-> localStorage]
    ELSE [threw |-> FALSE, alert |-> "Unexpected response format", weights |-> weights,
          results |-> results, localStorage |-> localStorage]

\* the rest of calculateWeights once the fetch of call id has come back with data:
\* the try block, and the catch block when it threw
handleResponse(id, data) ==
    /\ promises[id] = "pending"
    /\ weights' = tryBlock(data).weights
    /\ results' = tryBlock(data).results
    /\ localStorage' = tryBlock(data).localStorage
    /\ alerted' = IF tryBlock(data).threw THEN "Error calculating weights: " \o "error"
                  ELSE tryBlock(data).alert
    /\ promises' = [promises EXCEPT ![id] = "fulfilled"]
    /\ received' = [c \in DOMAIN received \cup {id} |-> IF c = id THEN data ELSE received[c]]
    /\ UNCHANGED <<criteria, criteriaList, container, pairwiseSection, sent>>

\* ---- the specification
Init ==
    /\ criteria = SubSeq(InitialCriteria, 1, InitLen)
    /\ criteriaList = updateCriteriaList(criteria)
    /\ container = <<>>
    /\ pairwiseSection = "none"
    /\ weights = EmptyArray
    /\ results = [html |-> NoHtml, display |-> "none"]
    /\ localStorage = [ahp_weights |-> NoItem, ahp_criteria |-> NoItem]
    /\ promises = <<>>
    /\ sent = NoRequest
    /\ received = <<>>
    /\ alerted = NoAlert

\* the inputs the user clicks
Picks ==
    The({ {k \in 1..Len(RadioValues) : k - c <= MaxPick /\ c - k <= MaxPick} :
          c \in {GeneratedChecked} })

Next ==
    \/ \E typed \in Typed : addCriteria(typed)
    \/ \E t \in 1..Len(criteriaList) : removeCriteria(t)
    \/ generatePairwiseComparisons
    \/ \E r \in 1..Len(container), k \in Picks : selectRadio(r, k)
    \/ calculateWeights
    \/ \E id \in Pending : \E data \in Responses(id) : handleResponse(id, data)

\* the page: every handler, the user's clicks and the responses
Spec == Init /\ [][Next]_vars

\* ---- the parts of the page
\* The handlers of the criteria, the comparisons and the request read and write
\* criteria, criteriaList, container, pairwiseSection and sent, and none of them
\* reads what the handling of a response writes; the handling of a response reads
\* and writes weights, results and localStorage only.  The states of Spec are
\* therefore pairs of a state of SpecPage and a state of SpecFetch, and what is
\* stated of the variables of one part is checked under that part.

\* the criteria, the comparisons and the request
NextPage ==
    \/ \E typed \in Typed : addCriteria(typed)
    \/ \E t \in 1..Len(criteriaList) : removeCriteria(t)
    \/ generatePairwiseComparisons
    \/ \E r \in 1..Len(container), k \in Picks : selectRadio(r, k)
    \/ calculateWeights

SpecPage == Init /\ [][NextPage]_vars

\* the requests and their responses
NextFetch ==
    \/ calculateWeights
    \/ \E id \in Pending : \E data \in Responses(id) : handleResponse(id, data)

SpecFetch == Init /\ [][NextFetch]_vars

\* ---- generatePairwiseComparisons and getPairwiseMatrix on every list and every
\* state of the radio groups
\* the page holds the first n initial criteria and the rows generated for the first
\* g of them (none, g = 0, when generatePairwiseComparisons has not run), in which
\* the user has moved the selection of at most MaxChecked rows to any other input
MaxCriteria == 3

MaxChecked == 1

GeneratedRows(g) ==
    [r \in 1..Len(PairSeq(g)) |->
        ComparisonRow(SubSeq(InitialCriteria, 1, g), PairSeq(g)[r][1], PairSeq(g)[r][2])]

InitInputs ==
    /\ \E n \in 0..MaxCriteria : criteria = SubSeq(InitialCriteria, 1, n)
    /\ criteriaList = updateCriteriaList(criteria)
    /\ \E g \in {0} \cup 2..MaxCriteria :
          /\ pairwiseSection = IF g = 0 THEN "none" ELSE "block"
          /\ \E moved \in SUBSET (1..Len(PairSeq(g))) :
                /\ Cardinality(moved) <= MaxChecked
                /\ \E to \in [moved -> (1..Len(RadioValues)) \ {GeneratedChecked}] :
                      container = [r \in 1..Len(PairSeq(g)) |->
                                      IF r \in moved
                                      THEN [GeneratedRows(g)[r] EXCEPT !.checked = to[r]]
                                      ELSE GeneratedRows(g)[r]]
    /\ weights = EmptyArray
    /\ results = [html |-> NoHtml, display |-> "none"]
    /\ localStorage = [ahp_weights |-> NoItem, ahp_criteria |-> NoItem]
    /\ promises = <<>>
    /\ sent = NoRequest
    /\ received = <<>>
    /\ alerted = NoAlert

\* one request in a behaviour, before or after the comparisons are generated anew
NextInputs ==
    \/ generatePairwiseComparisons
    \/ promises = <<>> /\ calculateWeights

SpecInputs == InitInputs /\ [][NextInputs]_vars

\* ---- what the claims speak of
\* the seventeen values of the scale: 9, ..., 2, 1, 1/2, ..., 1/9
ScaleNumbers ==
    [k \in 1..17 |-> IF k <= 9 THEN FromInt[10 - k] ELSE Divide(FromInt[1], FromInt[k - 8])] \o <<>>

\* <<v, 1/v>> for every value of the scale
ReciprocalPairs == The({ {<<sn[k], Divide(One, sn[k])>> : k \in 1..Len(sn)} : sn \in {ScaleNumbers} })

\* a request has been sent
Requested == promises # <<>>

\* strictly positive: neither zero nor NaN
Positive(v) == v.m # <<>>

\* the rows of the page that show the radio group compare_i_j
GroupRows(i, j) == {r \in 1..Len(container) : container[r].name = <<i, j>>}

\* this step is the handling of the response of call id
Handles(id) == id \in DOMAIN promises /\ promises[id] = "pending" /\ promises'[id] = "fulfilled"

\* localStorage holds the weights and the criteria of the response data
StoredFrom(store, data) ==
    store = [ahp_weights |-> JSONStringify(data.weights),
             ahp_criteria |-> JSONStringify(data.criteria)]

\* ---- C1
\* C1: for every criteria list of length n and every state of the radio groups, the
\* matrix getPairwiseMatrix returns to calculateWeights has n rows of n entries,
\* every diagonal entry 1, every entry strictly positive, and m[j][i] = 1/m[i][j]
\* for all i and j.
C1_ReciprocalMatrix ==
    [][calculateWeights =>
          LET n == Len(criteria)
              m == sent'.pairwise_matrix
          IN  /\ DOMAIN m = 0..(n - 1)
              /\ \A i \in 0..(n - 1) :
                    /\ DOMAIN m[i] = 0..(n - 1)
                    /\ m[i][i] = One
                    /\ \A j \in 0..(n - 1) :
                          /\ Positive(m[i][j])
                          /\ <<m[i][j], m[j][i]>> \in ReciprocalPairs]_vars

\* three criteria, and the group of a pair moved to 1/3: the entries are 1/3 and 3
C1_Witness ==
    /\ Requested
    /\ Len(sent.criteria) = 3
    /\ sent.pairwise_matrix[0][2] = ScaleNumbers[11]
    /\ sent.pairwise_matrix[2][0] = ScaleNumbers[7]

\* ---- C2
\* C2: for every pair i < j with no checked radio in the page (a pair whose group was
\* never rendered included) the matrix getPairwiseMatrix returns has m[i][j] = 1 and
\* m[j][i] = 1, and for every pair whose group has the input of the value v checked
\* it has m[i][j] = v and m[j][i] = 1/v.
C2_DefaultAndSelected ==
    [][calculateWeights =>
          LET n == Len(criteria)
              m == sent'.pairwise_matrix
          IN  \A i \in 0..(n - 1) : \A j \in (i + 1)..(n - 1) :
                  IF GroupRows(i, j) = {}
                  THEN m[i][j] = One /\ m[j][i] = One
                  ELSE \A r \in GroupRows(i, j) :
                          /\ m[i][j] = ScaleNumbers[container[r].checked]
                          /\ <<ScaleNumbers[container[r].checked], m[j][i]>> \in ReciprocalPairs]_vars

\* three criteria on a page that shows the one group of two criteria, moved to 1/9
C2_Witness ==
    /\ Requested
    /\ Len(sent.criteria) = 3
    /\ GroupRows(1, 2) = {}
    /\ sent.pairwise_matrix[1][2] = One
    /\ sent.pairwise_matrix[2][1] = One
    /\ GroupRows(0, 1) # {}
    /\ sent.pairwise_matrix[0][1] = ScaleNumbers[17]
    /\ sent.pairwise_matrix[1][0] = ScaleNumbers[1]

\* ---- C3
C3_StorageOfOneResponse ==
    \/ localStorage = [ahp_weights |-> NoItem, ahp_criteria |-> NoItem]
    \/ \E id \in DOMAIN received :
          /\ received[id].success = True
          /\ received[id].is_consistent = True
          /\ StoredFrom(localStorage, received[id])

C3_StorageStep ==
    /\ localStorage' # localStorage =>
          \E id \in DOMAIN promises :
              /\ Handles(id)
              /\ received'[id].success = True
              /\ received'[id].is_consistent = True
              /\ StoredFrom(localStorage', received'[id])
    /\ \A id \in DOMAIN promises :
          Handles(id) /\ received'[id].kind = "object" /\ received'[id].is_consistent = False =>
              /\ localStorage' = localStorage
              /\ results' = results \/ ~results'.html.next

\* C3: the keys ahp_weights and ahp_criteria of localStorage are written only while a
\* response with success === true and is_consistent true is handled, both keys
\* always hold the weights and the criteria of one and the same response, and the
\* handling of a response with is_consistent false leaves both keys unchanged and
\* renders no 'Next: SAW Ranking' link.
C3_PersistOnlyConsistent == [](C3_StorageOfOneResponse) /\ [][C3_StorageStep]_vars

\* the first response was stored; the second, inconsistent, is shown without a link
C3_Witness ==
    /\ DOMAIN received = {0, 1}
    /\ received[0].is_consistent = True
    /\ StoredFrom(localStorage, received[0])
    /\ received[1].success = True
    /\ received[1].is_consistent = False
    /\ results.html.weights = Weights(1)
    /\ ~results.html.next

\* ---- C4
\* the alert for the response data, the null body being or not being a response
\* whose success is neither true nor false
AlertFor(data, nullHasNoSuccess) ==
    IF data.kind = "rejected" THEN "Error calculating weights: " \o "error"
    ELSE IF data.kind = "null"
    THEN (IF nullHasNoSuccess THEN "Unexpected response format"
          ELSE "Error calculating weights: " \o "error")
    ELSE IF data.success = False THEN "Error: " \o "message"
    ELSE "Unexpected response format"

C4_Step(nullHasNoSuccess) ==
    \A id \in DOMAIN promises :
        Handles(id) =>
            /\ promises'[id] # "rejected"
            /\ received'[id].kind # "object" \/ received'[id].success # True =>
                  /\ alerted' = AlertFor(received'[id], nullHasNoSuccess)
                  /\ UNCHANGED <<weights, results, localStorage>>

\* C4, amended: a response with success === false gives the alert 'Error: ' +
\* data.error; a response other than null whose success is neither true nor false
\* gives 'Unexpected response format'; a transport failure, an unparsable body or
\* the body null gives 'Error calculating weights: ...'; in all of these weights,
\* the results panel and localStorage are unchanged, and the promise never rejects.
C4_AlertsAmended == [][C4_Step(FALSE)]_vars

\* C4 as claimed: every response whose success is neither true nor false, the body
\* null among them, gives 'Unexpected response format'.
C4_AlertsAsClaimed == [][C4_Step(TRUE)]_vars

\* the body null was received, and the alert of the catch block is up
C4_Witness ==
    /\ \E id \in DOMAIN received : received[id] = NullBody
    /\ alerted = "Error calculating weights: " \o "error"
    /\ weights = EmptyArray
    /\ results.display = "none"

\* ---- C5
\* the list c without its element t
Without(c, t) == SubSeq(c, 1, t - 1) \o SubSeq(c, t + 1, Len(c))

\* C5: the criteria hold no name twice and no blank name; addCriteria with a new
\* non-blank name appends its trimmed form, addCriteria with a blank or present name
\* changes nothing; the list that removeCriteria on the tag of a criterion leaves, the
\* criteria filtered by the trimmed text of the tag, is the list without exactly
\* that criterion, the others in their order.
C5_UniqueNamesAndExactRemoval ==
    /\ [](/\ \A a, b \in 1..Len(criteria) : criteria[a] = criteria[b] => a = b
          /\ \A a \in 1..Len(criteria) : Trim(criteria[a]) # <<>>
          /\ Len(criteriaList) = Len(criteria)
          /\ \A t \in 1..Len(criteriaList) :
                Filter(criteria, Trim(criteriaList[t])) = Without(criteria, t))
    /\ [][\A typed \in Typed :
              addCriteria(typed) =>
                  criteria' = IF Trim(typed) = <<>> \/ Trim(typed) \in Range(criteria)
                              THEN criteria ELSE Append(criteria, Trim(typed))]_vars

\* ---- C6
\* C6: every request carries at least two criteria and a matrix of n rows of n
\* entries.
C6_RequestOfTwoOrMore ==
    Requested =>
        /\ Len(sent.criteria) >= 2
        /\ DOMAIN sent.pairwise_matrix = 0..(Len(sent.criteria) - 1)
        /\ \A i \in DOMAIN sent.pairwise_matrix :
              DOMAIN sent.pairwise_matrix[i] = 0..(Len(sent.criteria) - 1)

\* ---- C7
\* C7: in every request, for i < j, pairwise_matrix[i][j] is the value selected in
\* the group the page shows with the labels of criteria[i] and criteria[j]; where
\* the page shows no such group, no group gives the entry a value other than 1.
C7_EntriesOfTheLabelledGroups ==
    [][calculateWeights =>
          \A i \in 0..(Len(criteria) - 1) : \A j \in (i + 1)..(Len(criteria) - 1) :
              LET shown == {r \in 1..Len(container) :
                               /\ container[r].left = TextContent(criteria[i + 1])
                               /\ container[r].right = TextContent(criteria[j + 1])}
              IN  IF shown = {} THEN sent'.pairwise_matrix[i][j] = One
                  ELSE \E r \in shown :
                          sent'.pairwise_matrix[i][j] = ScaleNumbers[container[r].checked]]_vars

\* ---- C8
\* C8: with n >= 2 criteria generatePairwiseComparisons leaves in the container
\* exactly n(n-1)/2 groups, one compare_i_j for each i < j and none other, each with
\* the seventeen values of the scale and the value 1 checked, and shows the section;
\* with fewer it alerts and leaves the container, its selections and the visibility
\* of the section as they were.
C8_GeneratedGroups ==
    [][generatePairwiseComparisons =>
          LET n == Len(criteria)
          IN  IF n >= 2
              THEN /\ 2 * Len(container') = n * (n - 1)
                   /\ \A i \in 0..(n - 1) : \A j \in (i + 1)..(n - 1) :
                         Cardinality({r \in 1..Len(container') : container'[r].name = <<i, j>>}) = 1
                   /\ \A r \in 1..Len(container') :
                         /\ container'[r].name[1] < container'[r].name[2]
                         /\ container'[r].name[2] < n
                         /\ container'[r].checked \in 1..Len(ScaleNumbers)
                         /\ ScaleNumbers[container'[r].checked] = One
                   /\ ParsedValues = ScaleNumbers
                   /\ pairwiseSection' = "block"
              ELSE /\ alerted' = "Please add at least 2 criteria"
                   /\ UNCHANGED <<container, pairwiseSection>>]_vars

\* three criteria and their three groups, generated over the one group of two
\* criteria that was on the page of the request, its selection at 1/9
C8_Witness ==
    /\ Len(criteria) = 3
    /\ Len(container) = 3
    /\ \A r \in 1..Len(container) : ScaleNumbers[container[r].checked] = One
    /\ pairwiseSection = "block"
    /\ Requested
    /\ sent.pairwise_matrix[0][1] = ScaleNumbers[17]
    /\ sent.pairwise_matrix[1][2] = One

\* ---- C9
\* the response data is a complete, consistent result
Complete(data) ==
    /\ data.kind = "object"
    /\ data.success = True
    /\ data.criteria # Undefined
    /\ data.weights # Undefined
    /\ data.consistency_ratio # Undefined
    /\ data.is_consistent = True

\* C9: once every call has completed, each with a complete and consistent result,
\* weights, the results panel and localStorage are those of the response to the
\* call issued last.
C9_LastIssuedWins ==
    /\ Requested
    /\ DOMAIN received = DOMAIN promises
    /\ \A id \in DOMAIN received : Complete(received[id])
    => LET last == Cardinality(DOMAIN promises) - 1
       IN  /\ weights = Weights(last)
           /\ results.html.weights = Weights(last)
           /\ StoredFrom(localStorage, received[last])

\* ---- C10
\* C10: the handling of a success === true response either takes weights, the panel
\* and (when is_consistent) both keys of localStorage from that response and shows
\* no alert, or shows an alert and leaves weights, the panel and localStorage as
\* they were.
C10_AllOrNothing ==
    [][\A id \in DOMAIN promises :
          Handles(id) /\ received'[id].kind = "object" /\ received'[id].success = True =>
              \/ /\ alerted' = NoAlert
                 /\ weights' = received'[id].weights
                 /\ results'.html.weights = received'[id].weights
                 /\ results'.html.criteria = received'[id].criteria
                 /\ received'[id].is_consistent = True => StoredFrom(localStorage', received'[id])
              \/ /\ alerted' # NoAlert
                 /\ UNCHANGED <<weights, results, localStorage>>]_vars
====
